---- MODULE Spec2Model ----
(***************************************************************************)
(* x86 Adler-32 kernels of lib/x86/adler32_impl.h: the three chunk kernels *)
(* (SSE2, AVX2, AVX-512BW), the horizontal-reduction macros, the           *)
(* preprocessor blocks that bind DEFAULT_IMPL / DISPATCH, and              *)
(* arch_select_adler32_func.  The driver that calls a kernel comes from    *)
(* ../adler32_vec_template.h, which is included but is not part of the     *)
(* sources at hand; it is modelled from section 6 of the specification.    *)
(*                                                                         *)
(* 32-bit lanes and the u32 counters are kept as two's-complement bit      *)
(* patterns in -2^31 .. 2^31-1 (a u32 value >= 2^31 is the negative number *)
(* with the same bits); 16-bit lanes likewise in -2^15 .. 2^15-1.          *)
(***************************************************************************)
EXTENDS Integers, Sequences, FiniteSets, TLC

VARIABLES
    kernel,     \* which chunk kernel the driver was instantiated for
    buf,        \* the caller's buffer: [head, segs, tail]
    pc,         \* control position of the driver / kernel
    pos,        \* the driver's pointer into the buffer
    p,          \* the kernel's pointer p
    end,        \* the kernel's pointer end
    s1,         \* u32 s1
    s2,         \* u32 s2
    s1_in,      \* *s1 at the kernel call
    s2_in,      \* *s2 at the kernel call
    vec,        \* the kernel's vector registers (record keyed by C name)
    iters,      \* do-while iterations executed in the current call
    loadLo,     \* lowest byte address loaded in the current call
    loadHi,     \* one past the highest byte address loaded in the current call
    checksum,   \* the driver's final (s2 << 16) | s1
    cfg,        \* build configuration (predefined macros)
    ppc,        \* preprocessor position in adler32_impl.h
    macros,     \* macros defined so far by adler32_impl.h
    features,   \* what get_cpu_features() reports
    selected,   \* last return value of arch_select_adler32_func
    calls       \* number of calls of arch_select_adler32_func so far

vars == <<kernel, buf, pc, pos, p, end, s1, s2, s1_in, s2_in, vec, iters,
          loadLo, loadHi, checksum, cfg, ppc, macros, features, selected, calls>>

kvars == <<kernel, buf, pc, pos, p, end, s1, s2, s1_in, s2_in, vec, iters,
           loadLo, loadHi, checksum>>

bvars == <<cfg, ppc, macros, features, selected, calls>>

----------------------------------------------------------------------------
(* Bounds of the model *)

\* largest number of whole segments in a buffer of Spec
MaxSegs == 2

\* largest number of arch_select_adler32_func calls followed in SpecBuild
MaxCalls == 2

----------------------------------------------------------------------------
(* Fixed-width arithmetic *)

MaxS32 == 2147483647

MinS32 == -MaxS32 - 1

\* a + b in 32 bits, wrapping (never leaves the 32-bit range while computing)
Add32(a, b) ==
    IF a >= 0 /\ b >= 0 /\ a > MaxS32 - b
    THEN ((a - MaxS32) - 1) + ((b - MaxS32) - 1)
    ELSE IF a < 0 /\ b < 0 /\ a < MinS32 - b
    THEN ((a + MaxS32) + 1) + ((b + MaxS32) + 1)
    ELSE a + b

\* a << n in 32 bits
RECURSIVE Shl32(_, _)
Shl32(a, n) == IF n = 0 THEN a ELSE Shl32(Add32(a, a), n - 1)

\* a * w in 32 bits, wrapping, for a multiplier w >= 0
RECURSIVE Mul32(_, _)
Mul32(a, w) ==
    IF w = 0 THEN 0
    ELSE Add32(Mul32(Add32(a, a), w \div 2), IF w % 2 = 1 THEN a ELSE 0)

\* a + b in 16 bits, wrapping
Add16(a, b) == ((a + b + 32768) % 65536) - 32768

\* the unsigned value of a u32 bit pattern, modulo m (2^32 mod m is added for
\* patterns with the top bit set; 2^32 = 2 * 2^31 = 2 * (MaxS32 + 1))
UMod(x, m) ==
    IF x >= 0 THEN x % m
    ELSE ((x % m) + 2 * ((MaxS32 % m) + 1)) % m

Zeroes(n) == [i \in 1..n |-> 0]

VAdd32(u, v) == [i \in DOMAIN u |-> Add32(u[i], v[i])]

VMul32(u, w) == [i \in DOMAIN u |-> Mul32(u[i], w[i])]

VShl32(u, n) == [i \in DOMAIN u |-> Shl32(u[i], n)]

VAdd16(u, v) == [i \in DOMAIN u |-> Add16(u[i], v[i])]

RECURSIVE SeqSum(_)
SeqSum(s) == IF s = <<>> THEN 0 ELSE Add32(s[1], SeqSum(Tail(s)))

\* a vector literal { hi, hi-1, ..., hi-n+1 }
Weights(hi, n) == [i \in 1..n |-> hi - i + 1]

----------------------------------------------------------------------------
(* Kernel descriptors *)

Kernels == {"sse2", "avx2", "avx512bw"}

\* generic limit on a chunk (not defined in this header)
MAX_CHUNK_SIZE == 5552

IMPL_ALIGNMENT(k) ==
    CASE k = "avx512bw" -> 64
      [] k = "avx2"     -> 32
      [] k = "sse2"     -> 16

IMPL_SEGMENT_SIZE(k) ==
    CASE k = "avx512bw" -> 64
      [] k = "avx2"     -> 32
      [] k = "sse2"     -> 32

\* a maximum chunk size that lets the 16-bit counters reach 0xFFFF
IMPL_MAX_CHUNK_SIZE_unsigned(k) ==
    CASE k = "avx512bw" -> MAX_CHUNK_SIZE
      [] k = "avx2"     -> MAX_CHUNK_SIZE
      [] k = "sse2"     -> 32 * (65535 \div 255)

IMPL_MAX_CHUNK_SIZE(k) ==
    CASE k = "avx512bw" -> MAX_CHUNK_SIZE
      [] k = "avx2"     -> MAX_CHUNK_SIZE
      [] k = "sse2"     -> 32 * (32767 \div 255)

----------------------------------------------------------------------------
(* Memory: the caller's buffer *)

\* address at which the vector part of every buffer starts (aligned for all
\* three kernels)
Base == 2 * IMPL_ALIGNMENT("avx512bw")

\* a segment's contents: byte `val` at offset `at`, byte `fill` elsewhere
Pattern(at, val, fill) == [at |-> at, val |-> val, fill |-> fill]

PatByte(pat, off) == IF off = pat.at THEN pat.val ELSE pat.fill

BufStart == Base - Len(buf.head)

VecEnd == Base + Len(buf.segs) * IMPL_SEGMENT_SIZE(kernel)

BufEnd == VecEnd + Len(buf.tail)

MemByte(a) ==
    IF a < Base THEN buf.head[a - BufStart + 1]
    ELSE IF a < VecEnd
    THEN PatByte(buf.segs[((a - Base) \div IMPL_SEGMENT_SIZE(kernel)) + 1],
                 (a - Base) % IMPL_SEGMENT_SIZE(kernel))
    ELSE buf.tail[a - VecEnd + 1]

\* what a load may find in a byte beyond the caller's buffer
JunkBytes == {0, 255}

\* a 16-byte load at address a; bytes outside the buffer read as `junk`
Load128(a, junk) ==
    [i \in 1..16 |->
        IF a + i - 1 >= BufStart /\ a + i - 1 < BufEnd
        THEN MemByte(a + i - 1) ELSE junk]

----------------------------------------------------------------------------
(* Intrinsics *)

\* psadbw against zero: two 64-bit sums of 8 bytes each, seen as four 32-bit lanes
mm_sad_epu8(bytes) ==
    << bytes[1] + bytes[2] + bytes[3] + bytes[4]
         + bytes[5] + bytes[6] + bytes[7] + bytes[8],
       0,
       bytes[9] + bytes[10] + bytes[11] + bytes[12]
         + bytes[13] + bytes[14] + bytes[15] + bytes[16],
       0 >>

\* punpcklbw / punpckhbw against zero: the low / high 8 bytes as 16-bit lanes
mm_unpacklo_epi8(bytes) == [i \in 1..8 |-> bytes[i]]

mm_unpackhi_epi8(bytes) == [i \in 1..8 |-> bytes[i + 8]]

\* pmaddwd: signed 16-bit products, adjacent pairs added into 32-bit lanes
mm_madd_epi16(a, b) ==
    [i \in 1..4 |-> Add32(a[2 * i - 1] * b[2 * i - 1], a[2 * i] * b[2 * i])]

\* pshufd: lane i of the result is lane ((imm >> 2i) & 3) of v
mm_shuffle_epi32(v, imm) ==
    [i \in 1..4 |-> v[((imm \div (4 ^ (i - 1))) % 4) + 1]]

mm_cvtsi128_si32(v) == v[1]

\* vpmovzxbd: the low 8 bytes of a 128-bit value as eight 32-bit lanes
mm256_cvtepu8_epi32(x) == [i \in 1..8 |-> x[i]]

\* vpmovzxbd: all 16 bytes of a 128-bit value as sixteen 32-bit lanes
mm512_cvtepu8_epi32(x) == [i \in 1..16 |-> x[i]]

mm256_extracti128_si256(v, k) == [i \in 1..4 |-> v[4 * k + i]]

mm512_extracti64x4_epi64(v, k) == [i \in 1..8 |-> v[8 * k + i]]

----------------------------------------------------------------------------
(* Horizontal reduction macros; each yields the new values of s1 and s2 *)

ADLER32_FINISH_VEC_CHUNK_128(s1v, s2v, v_s1, v_s2) ==
    LET s2_fin1 == VAdd32(v_s2, mm_shuffle_epi32(v_s2, 49))      \* 0x31
        s1_fin  == VAdd32(v_s1, mm_shuffle_epi32(v_s1, 2))       \* 0x02
        s2_fin  == VAdd32(s2_fin1, mm_shuffle_epi32(s2_fin1, 2)) \* 0x02
    IN  [s1 |-> Add32(s1v, mm_cvtsi128_si32(s1_fin)),
         s2 |-> Add32(s2v, mm_cvtsi128_si32(s2_fin))]

\* the 128-bit vectors the 256-bit macro hands to the 128-bit one
Fold256(v) ==
    VAdd32(mm256_extracti128_si256(v, 0), mm256_extracti128_si256(v, 1))

ADLER32_FINISH_VEC_CHUNK_256(s1v, s2v, v_s1, v_s2) ==
    ADLER32_FINISH_VEC_CHUNK_128(s1v, s2v, Fold256(v_s1), Fold256(v_s2))

\* the 256-bit vectors the 512-bit macro hands to the 256-bit one
Fold512(v) ==
    VAdd32(mm512_extracti64x4_epi64(v, 0), mm512_extracti64x4_epi64(v, 1))

ADLER32_FINISH_VEC_CHUNK_512(s1v, s2v, v_s1, v_s2) ==
    ADLER32_FINISH_VEC_CHUNK_256(s1v, s2v, Fold512(v_s1), Fold512(v_s2))

----------------------------------------------------------------------------
(* adler32_avx512bw_chunk *)

Zero_avx512bw ==
    [v_s1_a |-> Zeroes(16), v_s1_b |-> Zeroes(16),
     v_s1_c |-> Zeroes(16), v_s1_d |-> Zeroes(16),
     v_s2_a |-> Zeroes(16), v_s2_b |-> Zeroes(16),
     v_s2_c |-> Zeroes(16), v_s2_d |-> Zeroes(16)]

\* one iteration of the do-while body on the four 16-byte loads pp[0..3]
LoopBody_avx512bw(v, pp0, pp1, pp2, pp3) ==
    LET bytes0 == mm512_cvtepu8_epi32(pp0)
        bytes1 == mm512_cvtepu8_epi32(pp1)
        bytes2 == mm512_cvtepu8_epi32(pp2)
        bytes3 == mm512_cvtepu8_epi32(pp3)
    IN  [v_s2_a |-> VAdd32(v.v_s2_a, v.v_s1_a),
         v_s2_b |-> VAdd32(v.v_s2_b, v.v_s1_b),
         v_s2_c |-> VAdd32(v.v_s2_c, v.v_s1_c),
         v_s2_d |-> VAdd32(v.v_s2_d, v.v_s1_d),
         v_s1_a |-> VAdd32(v.v_s1_a, bytes0),
         v_s1_b |-> VAdd32(v.v_s1_b, bytes1),
         v_s1_c |-> VAdd32(v.v_s1_c, bytes2),
         v_s1_d |-> VAdd32(v.v_s1_d, bytes3)]

\* the statements after the loop, up to the call of the 512-bit macro
Combine_avx512bw(v) ==
    LET s2_a1 == VAdd32(v.v_s2_a, v.v_s2_c)
        s2_b1 == VAdd32(v.v_s2_b, v.v_s2_d)
        s2_a2 == VAdd32(s2_a1, s2_b1)
        s2_a3 == VShl32(s2_a2, 5)
        s2_a4 == VAdd32(s2_a3, VMul32(v.v_s1_a, Weights(64, 16)))
        s2_a5 == VAdd32(s2_a4, VMul32(v.v_s1_b, Weights(48, 16)))
        s2_a6 == VAdd32(s2_a5, VMul32(v.v_s1_c, Weights(32, 16)))
        s2_a7 == VAdd32(s2_a6, VMul32(v.v_s1_d, Weights(16, 16)))
        s1_a1 == VAdd32(v.v_s1_a, v.v_s1_c)
        s1_b1 == VAdd32(v.v_s1_b, v.v_s1_d)
        s1_a2 == VAdd32(s1_a1, s1_b1)
    IN  [v EXCEPT !.v_s2_a = s2_a7, !.v_s2_b = s2_b1,
                  !.v_s1_a = s1_a2, !.v_s1_b = s1_b1]

Advance_avx512bw(q) == q + 64

----------------------------------------------------------------------------
(* adler32_avx2_chunk *)

Zero_avx2 ==
    [v_s1_a |-> Zeroes(8), v_s1_b |-> Zeroes(8),
     v_s1_c |-> Zeroes(8), v_s1_d |-> Zeroes(8),
     v_s2_a |-> Zeroes(8), v_s2_b |-> Zeroes(8),
     v_s2_c |-> Zeroes(8), v_s2_d |-> Zeroes(8)]

\* one iteration of the do-while body on the four 16-byte loads at byte
\* offsets 0, 8, 16 and 24 from p
LoopBody_avx2(v, ld0, ld8, ld16, ld24) ==
    LET bytes0 == mm256_cvtepu8_epi32(ld0)
        bytes1 == mm256_cvtepu8_epi32(ld8)
        bytes2 == mm256_cvtepu8_epi32(ld16)
        bytes3 == mm256_cvtepu8_epi32(ld24)
    IN  [v_s2_a |-> VAdd32(v.v_s2_a, v.v_s1_a),
         v_s2_b |-> VAdd32(v.v_s2_b, v.v_s1_b),
         v_s2_c |-> VAdd32(v.v_s2_c, v.v_s1_c),
         v_s2_d |-> VAdd32(v.v_s2_d, v.v_s1_d),
         v_s1_a |-> VAdd32(v.v_s1_a, bytes0),
         v_s1_b |-> VAdd32(v.v_s1_b, bytes1),
         v_s1_c |-> VAdd32(v.v_s1_c, bytes2),
         v_s1_d |-> VAdd32(v.v_s1_d, bytes3)]

\* the statements after the loop, up to the call of the 256-bit macro
Combine_avx2(v) ==
    LET s2_a1 == VAdd32(v.v_s2_a, v.v_s2_c)
        s2_b1 == VAdd32(v.v_s2_b, v.v_s2_d)
        s2_a2 == VAdd32(s2_a1, s2_b1)
        s2_a3 == VShl32(s2_a2, 5)
        s2_a4 == VAdd32(s2_a3, VMul32(v.v_s1_a, Weights(32, 8)))
        s2_a5 == VAdd32(s2_a4, VMul32(v.v_s1_b, Weights(24, 8)))
        s2_a6 == VAdd32(s2_a5, VMul32(v.v_s1_c, Weights(16, 8)))
        s2_a7 == VAdd32(s2_a6, VMul32(v.v_s1_d, Weights(8, 8)))
        s1_a1 == VAdd32(v.v_s1_a, v.v_s1_c)
        s1_b1 == VAdd32(v.v_s1_b, v.v_s1_d)
        s1_a2 == VAdd32(s1_a1, s1_b1)
    IN  [v EXCEPT !.v_s2_a = s2_a7, !.v_s2_b = s2_b1,
                  !.v_s1_a = s1_a2, !.v_s1_b = s1_b1]

Advance_avx2(q) == q + 32

----------------------------------------------------------------------------
(* adler32_sse2_chunk *)

Zero_sse2 ==
    [v_s1 |-> Zeroes(4), v_s2 |-> Zeroes(4),
     v_byte_sums_a |-> Zeroes(8), v_byte_sums_b |-> Zeroes(8),
     v_byte_sums_c |-> Zeroes(8), v_byte_sums_d |-> Zeroes(8)]

\* one iteration of the do-while body on the two 16-byte loads
LoopBody_sse2(v, bytes1, bytes2) ==
    [v_s2 |-> VAdd32(v.v_s2, v.v_s1),
     v_s1 |-> VAdd32(VAdd32(v.v_s1, mm_sad_epu8(bytes1)), mm_sad_epu8(bytes2)),
     v_byte_sums_a |-> VAdd16(v.v_byte_sums_a, mm_unpacklo_epi8(bytes1)),
     v_byte_sums_b |-> VAdd16(v.v_byte_sums_b, mm_unpackhi_epi8(bytes1)),
     v_byte_sums_c |-> VAdd16(v.v_byte_sums_c, mm_unpacklo_epi8(bytes2)),
     v_byte_sums_d |-> VAdd16(v.v_byte_sums_d, mm_unpackhi_epi8(bytes2))]

\* the four pmaddwd results added into v_s2 after the loop
Madd_sse2(v) ==
    << mm_madd_epi16(v.v_byte_sums_a, Weights(32, 8)),
       mm_madd_epi16(v.v_byte_sums_b, Weights(24, 8)),
       mm_madd_epi16(v.v_byte_sums_c, Weights(16, 8)),
       mm_madd_epi16(v.v_byte_sums_d, Weights(8, 8)) >>

\* the statements after the loop, up to the call of the 128-bit macro
Combine_sse2(v) ==
    LET m     == Madd_sse2(v)
        s2_1  == VShl32(v.v_s2, 5)
        s2_2  == VAdd32(s2_1, m[1])
        s2_3  == VAdd32(s2_2, m[2])
        s2_4  == VAdd32(s2_3, m[3])
        s2_5  == VAdd32(s2_4, m[4])
    IN  [v EXCEPT !.v_s2 = s2_5]

\* an iteration that advances p by one __m128i only
Advance_sse2_single(q) == q + 16

\* the two post-increments of one iteration
Advance_sse2(q) == q + 16 + 16

\* byte offsets from p of the 16-byte loads of one iteration
LoadOffsets(k) ==
    CASE k = "avx512bw" -> <<0, 16, 32, 48>>
      [] k = "avx2"     -> <<0, 8, 16, 24>>
      [] k = "sse2"     -> <<0, 16>>

----------------------------------------------------------------------------
(* The driver, after section 6 of the specification *)

DIVISOR == 65521

Min(a, b) == IF a <= b THEN a ELSE b

Max(a, b) == IF a >= b THEN a ELSE b

\* for (a = from; a != stop; a++) { s1 += mem[a]; s2 += s1; } on st = <<s1, s2>>
RECURSIVE ScalarLoop(_, _, _)
ScalarLoop(from, stop, st) ==
    IF from >= stop THEN st
    ELSE LET n1 == Add32(st[1], MemByte(from))
         IN  ScalarLoop(from + 1, stop, <<n1, Add32(st[2], n1)>>)

\* where the scalar processing of the unaligned head stops
HeadStop ==
    CHOOSE a \in BufStart..BufEnd :
        /\ a = BufEnd \/ a % IMPL_ALIGNMENT(kernel) = 0
        /\ \A b \in BufStart..(a - 1) : b % IMPL_ALIGNMENT(kernel) # 0

\* end of the last whole segment
Vend == BufEnd - ((BufEnd - HeadStop) % IMPL_SEGMENT_SIZE(kernel))

\* the largest chunk, in segments, the driver may hand to the kernel at pos
LegalMaxSegs ==
    Min((Vend - pos) \div IMPL_SEGMENT_SIZE(kernel),
        IMPL_MAX_CHUNK_SIZE(kernel) \div IMPL_SEGMENT_SIZE(kernel))

\* (s2 << 16) | s1 for s1, s2 < 2^16
AdlerPack(a1, a2) == Add32(Shl32(a2, 16), a1)

\* scalar processing of the bytes before the first aligned address
DriverHead ==
    /\ pc = "start"
    /\ LET st == ScalarLoop(BufStart, HeadStop, <<s1, s2>>)
       IN  /\ s1' = UMod(st[1], DIVISOR)
           /\ s2' = UMod(st[2], DIVISOR)
    /\ pos' = HeadStop
    /\ pc' = "idle"
    /\ UNCHANGED <<kernel, buf, p, end, s1_in, s2_in, vec, iters, loadLo, loadHi,
                   checksum>>
    /\ UNCHANGED bvars

\* kernel(chunk_start, chunk_end, &s1, &s2) on a chunk of n segments
DriverCall(n) ==
    /\ pc = "idle"
    /\ pos < Vend
    /\ n >= 1
    /\ n <= LegalMaxSegs
    /\ p' = pos
    /\ end' = pos + n * IMPL_SEGMENT_SIZE(kernel)
    /\ s1_in' = s1
    /\ s2_in' = s2
    /\ iters' = 0
    /\ loadLo' = pos
    /\ loadHi' = pos
    /\ pc' = "entry"
    /\ UNCHANGED <<kernel, buf, pos, s1, s2, vec, checksum>>
    /\ UNCHANGED bvars

\* any legal chunk
DriverCallAny == \E n \in 1..MaxSegs : DriverCall(n)

\* the largest legal chunk
DriverCallMax == DriverCall(LegalMaxSegs)

\* s1 %= 65521; s2 %= 65521 after a chunk
DriverReduce ==
    /\ pc = "ret"
    /\ s1' = UMod(s1, DIVISOR)
    /\ s2' = UMod(s2, DIVISOR)
    /\ pos' = end
    /\ pc' = "idle"
    /\ UNCHANGED <<kernel, buf, p, end, s1_in, s2_in, vec, iters, loadLo, loadHi,
                   checksum>>
    /\ UNCHANGED bvars

\* scalar processing of the tail and assembly of the checksum
DriverTail ==
    /\ pc = "idle"
    /\ pos = Vend
    /\ LET st == ScalarLoop(Vend, BufEnd, <<s1, s2>>)
           r1 == UMod(st[1], DIVISOR)
           r2 == UMod(st[2], DIVISOR)
       IN  /\ s1' = r1
           /\ s2' = r2
           /\ checksum' = AdlerPack(r1, r2)
    /\ pos' = BufEnd
    /\ pc' = "done"
    /\ UNCHANGED <<kernel, buf, p, end, s1_in, s2_in, vec, iters, loadLo, loadHi>>
    /\ UNCHANGED bvars

----------------------------------------------------------------------------
(* The kernels as steps: entry, one do-while iteration, the rest *)

\* upper limit of the addresses followed by the model
MemTop == BufEnd + IMPL_SEGMENT_SIZE(kernel)

Enter(k, zero) ==
    /\ pc = "entry"
    /\ kernel = k
    /\ vec' = zero
    /\ pc' = "loop"
    /\ UNCHANGED <<kernel, buf, pos, p, end, s1, s2, s1_in, s2_in, iters,
                   loadLo, loadHi, checksum>>
    /\ UNCHANGED bvars

\* what one iteration does to p, the loop counter and the record of loads
Iterate(k, newp) ==
    /\ p' = newp
    /\ iters' = iters + 1
    /\ loadLo' = Min(loadLo, p + LoadOffsets(k)[1])
    /\ loadHi' = Max(loadHi, p + LoadOffsets(k)[Len(LoadOffsets(k))] + 16)
    /\ pc' = IF newp # end THEN "loop" ELSE "post"
    /\ UNCHANGED <<kernel, buf, pos, end, s1, s2, s1_in, s2_in, checksum>>
    /\ UNCHANGED bvars

Enter_avx512bw == Enter("avx512bw", Zero_avx512bw)

Loop_avx512bw ==
    /\ pc = "loop"
    /\ kernel = "avx512bw"
    /\ p < MemTop
    /\ \E junk \in JunkBytes :
         LET o == LoadOffsets("avx512bw")
         IN  vec' = LoopBody_avx512bw(vec, Load128(p + o[1], junk),
                                      Load128(p + o[2], junk),
                                      Load128(p + o[3], junk),
                                      Load128(p + o[4], junk))
    /\ Iterate("avx512bw", Advance_avx512bw(p))

Finish_avx512bw ==
    /\ pc = "post"
    /\ kernel = "avx512bw"
    /\ LET v == Combine_avx512bw(vec)
           r == ADLER32_FINISH_VEC_CHUNK_512(s1, s2, v.v_s1_a, v.v_s2_a)
       IN  /\ vec' = v
           /\ s1' = r.s1
           /\ s2' = r.s2
    /\ pc' = "ret"
    /\ UNCHANGED <<kernel, buf, pos, p, end, s1_in, s2_in, iters, loadLo, loadHi,
                   checksum>>
    /\ UNCHANGED bvars

Enter_avx2 == Enter("avx2", Zero_avx2)

Loop_avx2 ==
    /\ pc = "loop"
    /\ kernel = "avx2"
    /\ p < MemTop
    /\ \E junk \in JunkBytes :
         LET o == LoadOffsets("avx2")
         IN  vec' = LoopBody_avx2(vec, Load128(p + o[1], junk),
                                  Load128(p + o[2], junk),
                                  Load128(p + o[3], junk),
                                  Load128(p + o[4], junk))
    /\ Iterate("avx2", Advance_avx2(p))

Finish_avx2 ==
    /\ pc = "post"
    /\ kernel = "avx2"
    /\ LET v == Combine_avx2(vec)
           r == ADLER32_FINISH_VEC_CHUNK_256(s1, s2, v.v_s1_a, v.v_s2_a)
       IN  /\ vec' = v
           /\ s1' = r.s1
           /\ s2' = r.s2
    /\ pc' = "ret"
    /\ UNCHANGED <<kernel, buf, pos, p, end, s1_in, s2_in, iters, loadLo, loadHi,
                   checksum>>
    /\ UNCHANGED bvars

Enter_sse2 == Enter("sse2", Zero_sse2)

Loop_sse2 ==
    /\ pc = "loop"
    /\ kernel = "sse2"
    /\ p < MemTop
    /\ \E junk \in JunkBytes :
         LET o == LoadOffsets("sse2")
         IN  vec' = LoopBody_sse2(vec, Load128(p + o[1], junk),
                                  Load128(p + o[2], junk))
    /\ Iterate("sse2", Advance_sse2(p))

Finish_sse2 ==
    /\ pc = "post"
    /\ kernel = "sse2"
    /\ LET v == Combine_sse2(vec)
           r == ADLER32_FINISH_VEC_CHUNK_128(s1, s2, v.v_s1, v.v_s2)
       IN  /\ vec' = v
           /\ s1' = r.s1
           /\ s2' = r.s2
    /\ pc' = "ret"
    /\ UNCHANGED <<kernel, buf, pos, p, end, s1_in, s2_in, iters, loadLo, loadHi,
                   checksum>>
    /\ UNCHANGED bvars

----------------------------------------------------------------------------
(* Initial states *)

NoVec == [none |-> 0]

NoCfg == [target |-> {}, enabled |-> FALSE, supports |-> {}]

NoMacros ==
    [DEFAULT_IMPL |-> "undef", DISPATCH |-> FALSE, dispatch |-> {}, funcs |-> {}]

BuildIdle ==
    /\ cfg = NoCfg
    /\ ppc = "off"
    /\ macros = NoMacros
    /\ features = {}
    /\ selected = "uncalled"
    /\ calls = 0

KernelStart ==
    /\ pc = "start"
    /\ pos = Base - Len(buf.head)
    /\ p = 0
    /\ end = 0
    /\ s1 = 1
    /\ s2 = 0
    /\ s1_in = 0
    /\ s2_in = 0
    /\ vec = NoVec
    /\ iters = 0
    /\ loadLo = 0
    /\ loadHi = 0
    /\ checksum = 0

\* offsets within a segment at which a buffer of Spec may hold its one byte
UnitOffsets(k) == {0, 1, 2, 8, IMPL_SEGMENT_SIZE(k) - 1}

Patterns(k) ==
    {Pattern(0, 0, 0), Pattern(0, 255, 255)}
        \cup {Pattern(j, 1, 0) : j \in UnitOffsets(k)}

Heads == {<<>>, <<255>>}

Tails == {<<>>, <<1, 255>>}

SegSeqs(k, n) == UNION {[1..m -> Patterns(k)] : m \in 0..n}

Init ==
    /\ kernel \in Kernels
    /\ buf \in {[head |-> h, segs |-> s, tail |-> t] :
                    h \in Heads, s \in SegSeqs(kernel, MaxSegs), t \in Tails}
    /\ KernelStart
    /\ BuildIdle

Next ==
    \/ DriverHead
    \/ DriverCallAny
    \/ DriverReduce
    \/ DriverTail
    \/ Enter_avx512bw
    \/ Loop_avx512bw
    \/ Finish_avx512bw
    \/ Enter_avx2
    \/ Loop_avx2
    \/ Finish_avx2
    \/ Enter_sse2
    \/ Loop_sse2
    \/ Finish_sse2

Spec == Init /\ [][Next]_vars

----------------------------------------------------------------------------
(* The SSE2 kernel on chunks up to its maximum size *)

\* buffers of up to two segments more than the largest SSE2 chunk
OvfSegs == (32767 \div 255) + 2

OvfPatterns == {Pattern(0, 0, 0), Pattern(0, 255, 255), Pattern(31, 255, 0)}

InitOvf ==
    /\ kernel = "sse2"
    /\ buf \in {[head |-> <<>>, segs |-> [i \in 1..n |-> pat], tail |-> <<>>] :
                    n \in 1..OvfSegs, pat \in OvfPatterns}
    /\ KernelStart
    /\ BuildIdle

NextOvf ==
    \/ DriverHead
    \/ DriverCallMax
    \/ DriverReduce
    \/ DriverTail
    \/ Enter_sse2
    \/ Loop_sse2
    \/ Finish_sse2

SpecOvf == InitOvf /\ [][NextOvf]_vars

----------------------------------------------------------------------------
(* The preprocessor blocks and the dispatcher *)

Exts == {"AVX512BW", "AVX2", "SSE2"}

FUNCNAME(ext) ==
    CASE ext = "AVX512BW" -> "adler32_avx512bw"
      [] ext = "AVX2"     -> "adler32_avx2"
      [] ext = "SSE2"     -> "adler32_sse2"

\* bits of the u32 that get_cpu_features() returns: one per extension tested
\* here, and one standing for every other bit
FeatureBits == Exts \cup {"OTHER"}

\* build configurations: target = the __X__ macros the compiler predefines,
\* enabled = X86_CPU_FEATURES_ENABLED,
\* supports = the COMPILER_SUPPORTS_X_TARGET_INTRINSICS that are 1
Configs == [target : SUBSET Exts, enabled : BOOLEAN, supports : SUBSET Exts]

\* a block condition without the test of DEFAULT_IMPL
BlockCond_nodefault(ext) ==
    ext \in cfg.target \/ (cfg.enabled /\ ext \in cfg.supports)

\* #if !defined(DEFAULT_IMPL) && (defined(__X__) || (X86_CPU_FEATURES_ENABLED &&
\*                                 COMPILER_SUPPORTS_X_TARGET_INTRINSICS))
BlockCond(ext) ==
    /\ macros.DEFAULT_IMPL = "undef"
    /\ ext \in cfg.target \/ (cfg.enabled /\ ext \in cfg.supports)

\* one implementation block of the header: #undef DISPATCH_X, then the #if
Block(ext, here, next) ==
    /\ ppc = here
    /\ LET m0 == [macros EXCEPT !.dispatch = @ \ {ext}]
       IN  macros' =
             IF BlockCond(ext)
             THEN IF ext \in cfg.target
                  THEN [m0 EXCEPT !.DEFAULT_IMPL = FUNCNAME(ext),
                                  !.funcs = @ \cup {ext}]
                  ELSE [m0 EXCEPT !.DISPATCH = TRUE,
                                  !.dispatch = @ \cup {ext},
                                  !.funcs = @ \cup {ext}]
             ELSE m0
    /\ ppc' = next
    /\ UNCHANGED <<cfg, features, selected, calls>>
    /\ UNCHANGED kvars

Block_AVX512BW == Block("AVX512BW", "avx512bw", "avx2")

Block_AVX2 == Block("AVX2", "avx2", "sse2")

Block_SSE2 == Block("SSE2", "sse2", "done")

\* a dispatcher that tries the narrowest kernel first
arch_select_narrowest_first(f) ==
    IF "SSE2" \in macros.dispatch /\ "SSE2" \in f THEN FUNCNAME("SSE2")
    ELSE IF "AVX2" \in macros.dispatch /\ "AVX2" \in f THEN FUNCNAME("AVX2")
    ELSE IF "AVX512BW" \in macros.dispatch /\ "AVX512BW" \in f
    THEN FUNCNAME("AVX512BW")
    ELSE "NULL"

\* the value returned for features = f
arch_select_adler32_func(f) ==
    IF "AVX512BW" \in macros.dispatch /\ "AVX512BW" \in f
    THEN FUNCNAME("AVX512BW")
    ELSE IF "AVX2" \in macros.dispatch /\ "AVX2" \in f THEN FUNCNAME("AVX2")
    ELSE IF "SSE2" \in macros.dispatch /\ "SSE2" \in f THEN FUNCNAME("SSE2")
    ELSE "NULL"

\* a call of arch_select_adler32_func, which exists under #ifdef DISPATCH
Select ==
    /\ ppc = "done"
    /\ macros.DISPATCH
    /\ calls < MaxCalls
    /\ selected' = arch_select_adler32_func(features)
    /\ calls' = calls + 1
    /\ UNCHANGED <<cfg, ppc, macros, features>>
    /\ UNCHANGED kvars

InitBuild ==
    /\ cfg \in Configs
    /\ features \in SUBSET FeatureBits
    /\ ppc = "avx512bw"
    /\ macros = NoMacros
    /\ selected = "uncalled"
    /\ calls = 0
    /\ kernel = "sse2"
    /\ buf = [head |-> <<>>, segs |-> <<>>, tail |-> <<>>]
    /\ pc = "off"
    /\ pos = 0
    /\ p = 0
    /\ end = 0
    /\ s1 = 1
    /\ s2 = 0
    /\ s1_in = 0
    /\ s2_in = 0
    /\ vec = NoVec
    /\ iters = 0
    /\ loadLo = 0
    /\ loadHi = 0
    /\ checksum = 0

NextBuild ==
    \/ Block_AVX512BW
    \/ Block_AVX2
    \/ Block_SSE2
    \/ Select

SpecBuild == InitBuild /\ [][NextBuild]_vars

----------------------------------------------------------------------------
(* Reference quantities used by the properties *)

\* the kernel is between its first loop iteration and its return
InKernel == pc \in {"loop", "post", "ret"}

\* length in bytes of the chunk of the current call
ChunkLen == end - pos

\* sum of the bytes at addresses from .. to-1
RECURSIVE ByteSum(_, _)
ByteSum(from, to) ==
    IF from >= to THEN 0 ELSE MemByte(from) + ByteSum(from + 1, to)

\* sum over the bytes at addresses from .. to-1 of (to - address) * byte
RECURSIVE WeightedSum(_, _)
WeightedSum(from, to) ==
    IF from >= to THEN 0
    ELSE (to - from) * MemByte(from) + WeightedSum(from + 1, to)

\* the scalar definition: s1 = 1 + sum of bytes, s2 = sum of the running s1,
\* both modulo 65521, over the bytes at addresses from .. to-1, on st = <<s1, s2>>
RECURSIVE RefAdler(_, _, _)
RefAdler(from, to, st) ==
    IF from >= to THEN st
    ELSE LET n1 == (st[1] + MemByte(from)) % DIVISOR
         IN  RefAdler(from + 1, to, <<n1, (st[2] + n1) % DIVISOR>>)

\* the vectors a kernel hands to its finishing macro
FinalS1 == IF kernel = "sse2" THEN vec.v_s1 ELSE vec.v_s1_a

FinalS2 == IF kernel = "sse2" THEN vec.v_s2 ELSE vec.v_s2_a

\* the s1 vector that reaches ADLER32_FINISH_VEC_CHUNK_128
S1_128 ==
    CASE kernel = "sse2"     -> vec.v_s1
      [] kernel = "avx2"     -> Fold256(vec.v_s1_a)
      [] kernel = "avx512bw" -> Fold256(Fold512(vec.v_s1_a))

\* one whole kernel call on the chunk [from, to) with incoming (a1, a2)
RECURSIVE RunLoop(_, _, _, _)
RunLoop(k, v, q, to) ==
    IF q >= to THEN v
    ELSE LET o == LoadOffsets(k)
         IN  CASE k = "sse2" ->
                    RunLoop(k, LoopBody_sse2(v, Load128(q + o[1], 0),
                                             Load128(q + o[2], 0)),
                            Advance_sse2(q), to)
               [] k = "avx2" ->
                    RunLoop(k, LoopBody_avx2(v, Load128(q + o[1], 0),
                                             Load128(q + o[2], 0),
                                             Load128(q + o[3], 0),
                                             Load128(q + o[4], 0)),
                            Advance_avx2(q), to)
               [] k = "avx512bw" ->
                    RunLoop(k, LoopBody_avx512bw(v, Load128(q + o[1], 0),
                                                 Load128(q + o[2], 0),
                                                 Load128(q + o[3], 0),
                                                 Load128(q + o[4], 0)),
                            Advance_avx512bw(q), to)

KernelCall(k, from, to, a1, a2) ==
    CASE k = "sse2" ->
           LET v == Combine_sse2(RunLoop(k, Zero_sse2, from, to))
           IN  ADLER32_FINISH_VEC_CHUNK_128(a1, a2, v.v_s1, v.v_s2)
      [] k = "avx2" ->
           LET v == Combine_avx2(RunLoop(k, Zero_avx2, from, to))
           IN  ADLER32_FINISH_VEC_CHUNK_256(a1, a2, v.v_s1_a, v.v_s2_a)
      [] k = "avx512bw" ->
           LET v == Combine_avx512bw(RunLoop(k, Zero_avx512bw, from, to))
           IN  ADLER32_FINISH_VEC_CHUNK_512(a1, a2, v.v_s1_a, v.v_s2_a)

\* vector width of an extension, in bits
Width(ext) ==
    CASE ext = "AVX512BW" -> 512
      [] ext = "AVX2"     -> 256
      [] ext = "SSE2"     -> 128

----------------------------------------------------------------------------
(* Properties *)

\* C1 (Equivalence): when the driver is done, the checksum it assembled equals
\* the scalar definition over the whole buffer, s1 = 1 + sum of bytes mod 65521,
\* s2 = sum of the running s1 mod 65521, checksum = (s2 << 16) | s1, for each
\* of the three kernels.
C1_Equivalence ==
    pc = "done" =>
        LET r == RefAdler(BufStart, BufEnd, <<1, 0>>)
        IN  checksum = AdlerPack(r[1], r[2])

\* C2 (Kernel contract): when a kernel call returns, s1 and s2 hold what the
\* scalar loop started from the incoming values would hold:
\* s1' = s1 + sum of b_i and s2' = s2 + L*s1 + sum of (L - i)*b_i (mod 2^32).
C2_KernelContract ==
    pc = "ret" =>
        /\ s1 = Add32(s1_in, ByteSum(pos, end))
        /\ s2 = Add32(Add32(s2_in, Mul32(s1_in, ChunkLen)), WeightedSum(pos, end))

\* C3 (Horizontal reduction): the finishing macro adds to s1 the sum of all
\* 32-bit lanes of the kernel's final s1 vector and to s2 the sum of all lanes
\* of its final s2 vector, and lanes 1 and 3 of the 128-bit s1 vector it
\* reduces are 0.
C3_HorizontalReduction ==
    pc = "ret" =>
        /\ s1 = Add32(s1_in, SeqSum(FinalS1))
        /\ s2 = Add32(s2_in, SeqSum(FinalS2))
        /\ S1_128[2] = 0
        /\ S1_128[4] = 0

\* C4 (Overflow safety of the SSE2 kernel): on every chunk the driver may pass,
\* none of the 16-bit byte counters passes 0x7FFF (a counter that did would be
\* negative, as each step adds at most 255), no lane of v_s1 or v_s2 passes the
\* signed 32-bit range (each step adds less than 2^31), and after the loop the
\* pmaddwd results, the shifted v_s2 and their sum fit the signed 32-bit range.
C4_Sse2NoOverflow ==
    (kernel = "sse2" /\ InKernel) =>
        /\ \A i \in 1..8 :
             /\ vec.v_byte_sums_a[i] >= 0
             /\ vec.v_byte_sums_b[i] >= 0
             /\ vec.v_byte_sums_c[i] >= 0
             /\ vec.v_byte_sums_d[i] >= 0
        /\ \A i \in 1..4 : vec.v_s1[i] >= 0 /\ vec.v_s2[i] >= 0
        /\ pc = "post" =>
             LET m == Madd_sse2(vec)
             IN  \A i \in 1..4 :
                   /\ \A j \in 1..4 : m[j][i] >= 0
                   /\ vec.v_s2[i] <=
                        (MaxS32 - (m[1][i] + m[2][i] + m[3][i] + m[4][i])) \div 32

\* C4 witness: the SSE2 kernel has finished a chunk of 4096 bytes, all 255
C4_Witness ==
    /\ kernel = "sse2"
    /\ pc = "ret"
    /\ ChunkLen = 4096
    /\ \A i \in 1..8 : vec.v_byte_sums_a[i] = 32640 /\ vec.v_byte_sums_d[i] = 32640

\* the extensions whose kernel the dispatcher may return
Eligible == {e \in macros.dispatch : e \in features}

\* C5 (Dispatcher selection): every value arch_select_adler32_func has returned
\* is the kernel of the widest extension that is compiled for dispatch and
\* reported by get_cpu_features(), and is NULL exactly when there is none; the
\* kernel returned is compiled in.
C5_DispatcherSelection ==
    selected # "uncalled" =>
        /\ selected = "NULL" <=> Eligible = {}
        /\ Eligible # {} =>
             \E e \in Eligible :
                /\ selected = FUNCNAME(e)
                /\ e \in macros.funcs
                /\ \A e2 \in Eligible : Width(e2) <= Width(e)

\* C5 witness: the second call returned AVX2 again, with AVX-512BW compiled for
\* dispatch but not reported and SSE2 both compiled for dispatch and reported
C5_Witness ==
    /\ calls = 2
    /\ selected = "adler32_avx2"
    /\ macros.dispatch = Exts
    /\ features = {"AVX2", "SSE2", "OTHER"}

\* C6 as stated (Compile-time binding): once the header is preprocessed in a
\* configuration that guarantees some extension, DEFAULT_IMPL is the kernel of
\* a guaranteed extension, no kernel is compiled for runtime dispatch and
\* DISPATCH is not defined (so arch_select_adler32_func does not exist).
C6_Original ==
    (ppc = "done" /\ cfg.target # {}) =>
        /\ \E e \in cfg.target : macros.DEFAULT_IMPL = FUNCNAME(e)
        /\ macros.dispatch = {}
        /\ ~macros.DISPATCH

\* C6 amended: once the header is preprocessed in a configuration that
\* guarantees some extension, DEFAULT_IMPL is the kernel of the widest
\* guaranteed extension; no kernel of that extension or of a narrower one is
\* compiled for runtime dispatch; the kernels compiled for dispatch are those
\* of the wider extensions that X86_CPU_FEATURES_ENABLED and the compiler
\* support; and DISPATCH is defined exactly when there is such a kernel.
C6_CompileTimeBinding ==
    (ppc = "done" /\ cfg.target # {}) =>
        \E w \in cfg.target :
            /\ \A e \in cfg.target : Width(e) <= Width(w)
            /\ macros.DEFAULT_IMPL = FUNCNAME(w)
            /\ macros.dispatch =
                 {e \in Exts : Width(e) > Width(w) /\ cfg.enabled
                               /\ e \in cfg.supports}
            /\ macros.funcs = macros.dispatch \cup {w}
            /\ macros.DISPATCH <=> macros.dispatch # {}

\* C6 witness: SSE2 is guaranteed and is DEFAULT_IMPL, while AVX2 and AVX-512BW
\* are compiled for runtime dispatch
C6_Witness ==
    /\ ppc = "done"
    /\ cfg.target = {"SSE2"}
    /\ macros.DEFAULT_IMPL = "adler32_sse2"
    /\ macros.dispatch = {"AVX512BW", "AVX2"}
    /\ macros.DISPATCH

\* C7 (Chunk-boundary independence): when the driver has fed all the segments
\* of a buffer made of whole segments only, in whatever legal chunks, s1 and s2
\* (reduced modulo 65521) equal what one kernel call on the whole buffer gives.
C7_ChunkBoundaryIndependence ==
    (/\ pc = "idle"
     /\ buf.head = <<>>
     /\ buf.tail = <<>>
     /\ Len(buf.segs) >= 1
     /\ pos = Vend) =>
        LET r == KernelCall(kernel, Base, Vend, 1, 0)
        IN  /\ s1 = UMod(r.s1, DIVISOR)
            /\ s2 = UMod(r.s2, DIVISOR)

\* C8 (Weighted sum): when a kernel call returns, the amount it added to s2 is
\* the sum over the chunk of (L - i)*b_i (mod 2^32).
C8_WeightedSum ==
    pc = "ret" => s2 = Add32(s2_in, WeightedSum(pos, end))

\* C9 (Memory footprint): every byte a kernel call has loaded lies in the
\* chunk [p, end) it was given.
C9_LoadsInsideChunk ==
    InKernel => (pos <= loadLo /\ loadHi <= end)

\* C10 (Termination): in every call, each iteration of the do-while loop
\* consumes one segment (p advances by IMPL_SEGMENT_SIZE and never passes end),
\* the loop can always take its next iteration while p # end, and it is left
\* with p = end after exactly L / IMPL_SEGMENT_SIZE iterations, so the distance
\* end - p strictly decreases to 0 and the call completes.
C10_Termination ==
    /\ [](InKernel =>
            /\ p = pos + iters * IMPL_SEGMENT_SIZE(kernel)
            /\ p <= end
            /\ pc = "loop" => (p < end /\ p < MemTop)
            /\ pc \in {"post", "ret"} =>
                 /\ p = end
                 /\ iters * IMPL_SEGMENT_SIZE(kernel) = ChunkLen)
    /\ [][pc = "loop" =>
            /\ p' = p + IMPL_SEGMENT_SIZE(kernel)
            /\ iters' = iters + 1
            /\ end' - p' < end - p
            /\ pc' = (IF p' = end THEN "post" ELSE "loop")]_vars

\* C10 witness: a loop of more than one iteration has just been left
C10_Witness ==
    /\ pc = "post"
    /\ iters >= 2
    /\ p = end

====
